---- MODULE Spec2Model ----
(***************************************************************************)
(* A model of PodBLECore (src/windows/pod_ble_core.cpp): the address       *)
(* codec, the download command frame, Smart Peek, packet reassembly, the   *)
(* watchdog thread and the detached delayed tasks.                         *)
(*                                                                         *)
(* Text is a sequence of character codes (ASCII), a byte buffer a sequence *)
(* of 0..255.  A uint64_t is a sequence of 8 octets, most significant      *)
(* first, because the values do not fit the model checker's integers.      *)
(***************************************************************************)
EXTENDS Integers, Sequences, FiniteSets, TLC

\* ------------------------------------------------------------------------
\* Character codes used by the texts of the model
\* ------------------------------------------------------------------------
ChColon == 58
ChSpace == 32
ChParen == 40
ChZero == 48
ChLowerA == 97

Min(a, b) == IF a < b THEN a ELSE b
Max(a, b) == IF a > b THEN a ELSE b

\* n copies of x
Rep(x, n) == [i \in 1..n |-> x]

\* ------------------------------------------------------------------------
\* 64-bit unsigned values as 8 octets, most significant first
\* ------------------------------------------------------------------------
U64Zero == Rep(0, 8)

\* (addr >> (i * 8)) & 0xFF
U64Byte(addr, i) == addr[8 - i]

\* addr << 8
U64Shl8(addr) == SubSeq(addr, 2, 8) \o <<0>>

RECURSIVE BitOr(_, _)
BitOr(a, b) ==
    IF a = 0 THEN b
    ELSE IF b = 0 THEN a
    ELSE 2 * BitOr(a \div 2, b \div 2) + (IF (a % 2 = 1) \/ (b % 2 = 1) THEN 1 ELSE 0)

\* a | b
U64Or(a, b) == [i \in 1..8 |-> BitOr(a[i], b[i])]

\* ------------------------------------------------------------------------
\* OnAdvertisementReceived: the name filter and the address formatting
\* ------------------------------------------------------------------------
ToUpper(c) == IF c >= 97 /\ c <= 122 THEN c - 32 ELSE c

UpperName(name) == [i \in 1..Len(name) |-> ToUpper(name[i])]

\* upperName.find("POD") == 0
IsPodName(name) ==
    /\ Len(name) >= 3
    /\ SubSeq(UpperName(name), 1, 3) = <<80, 79, 68>>

HexChar(d) == IF d < 10 THEN ChZero + d ELSE ChLowerA + (d - 10)

\* ss << std::hex << v : the digits of v, no leading zeros
RECURSIVE HexOf(_)
HexOf(v) == IF v < 16 THEN <<HexChar(v)>> ELSE Append(HexOf(v \div 16), HexChar(v % 16))

\* std::setfill('0') << std::setw(w)
SetW(w, s) == IF Len(s) >= w THEN s ELSE Rep(ChZero, w - Len(s)) \o s

RECURSIVE FormatFrom(_, _)
FormatFrom(addr, i) ==
    SetW(2, HexOf(U64Byte(addr, i)))
        \o (IF i > 0 THEN <<ChColon>> \o FormatFrom(addr, i - 1) ELSE <<>>)

FormatAddressBigEndianFirst(addr) == FormatFrom(addr, 5)

\* the mutant: octets written least significant first
RECURSIVE FormatFromLow(_, _)
FormatFromLow(addr, i) ==
    SetW(2, HexOf(U64Byte(addr, i)))
        \o (IF i < 5 THEN <<ChColon>> \o FormatFromLow(addr, i + 1) ELSE <<>>)

FormatAddressLowFirst(addr) == FormatFromLow(addr, 0)

FormatAddress(addr) == FormatAddressBigEndianFirst(addr)

\* ------------------------------------------------------------------------
\* Connect: the address parsing
\* ------------------------------------------------------------------------
IsSpace(c) == c = 32 \/ (c >= 9 /\ c <= 13)

IsHexDigit(c) ==
    \/ (c >= 48 /\ c <= 57)
    \/ (c >= 97 /\ c <= 102)
    \/ (c >= 65 /\ c <= 70)

HexVal(c) ==
    IF c <= 57 THEN c - 48
    ELSE IF c >= 97 THEN c - 97 + 10
    ELSE c - 65 + 10

\* std::getline(ss, byte_str, ':') until it fails: the tokens of the text
RECURSIVE GetLines(_)
GetLines(s) ==
    IF s = <<>> THEN <<>>
    ELSE IF \E i \in 1..Len(s) : s[i] = ChColon
    THEN LET p == CHOOSE i \in 1..Len(s) :
                      /\ s[i] = ChColon
                      /\ \A j \in 1..(i - 1) : s[j] # ChColon
         IN <<SubSeq(s, 1, p - 1)>> \o GetLines(SubSeq(s, p + 1, Len(s)))
    ELSE <<s>>

RECURSIVE SkipSpace(_)
SkipSpace(s) == IF s # <<>> /\ IsSpace(s[1]) THEN SkipSpace(Tail(s)) ELSE s

\* an optional "0x" or "0X", taken when a hex digit follows it
SkipHexPrefix(s) ==
    IF /\ Len(s) >= 3
       /\ s[1] = ChZero
       /\ (s[2] = 120 \/ s[2] = 88)
       /\ IsHexDigit(s[3])
    THEN SubSeq(s, 3, Len(s))
    ELSE s

\* the longest prefix of hex digits, as their values
RECURSIVE LeadingDigits(_)
LeadingDigits(s) ==
    IF s # <<>> /\ IsHexDigit(s[1])
    THEN <<HexVal(s[1])>> \o LeadingDigits(Tail(s))
    ELSE <<>>

RECURSIVE StripZeros(_)
StripZeros(d) == IF d # <<>> /\ d[1] = 0 THEN StripZeros(Tail(d)) ELSE d

\* the value of up to 16 hex digits as a uint64_t
NibblesToU64(d) ==
    LET n == Rep(0, 16 - Len(d)) \o d
    IN [i \in 1..8 |-> 16 * n[2 * i - 1] + n[2 * i]]

\* std::stoul(token, nullptr, 16), for texts without a sign character.
\* unsigned long has 32 bits on Windows: more than 8 significant digits
\* throw std::out_of_range; no digit at all throws std::invalid_argument.
Stoul16(tok) ==
    LET digits == StripZeros(LeadingDigits(SkipHexPrefix(SkipSpace(tok))))
    IN IF LeadingDigits(SkipHexPrefix(SkipSpace(tok))) = <<>>
       THEN [threw |-> "invalid_argument", val |-> U64Zero]
       ELSE IF Len(digits) > 8
       THEN [threw |-> "out_of_range", val |-> U64Zero]
       ELSE [threw |-> "none", val |-> NibblesToU64(digits)]

\* while (getline) addr = (addr << 8) | stoul(byte_str)
RECURSIVE FoldTokens(_, _)
FoldTokens(addr, toks) ==
    IF toks = <<>> THEN [threw |-> "none", val |-> addr]
    ELSE LET r == Stoul16(toks[1])
         IN IF r.threw # "none" THEN [threw |-> r.threw, val |-> addr]
            ELSE FoldTokens(U64Or(U64Shl8(addr), r.val), Tail(toks))

ParseAddress(text) == FoldTokens(U64Zero, GetLines(text))

\* ------------------------------------------------------------------------
\* DownloadFile: the command frame
\* ------------------------------------------------------------------------
\* std::string::npos; npos + 1 wraps around to 0
Npos == -1

\* s.find(c): the 0-based place of the first c, or npos
FindChar(s, c) ==
    IF \E i \in 1..Len(s) : s[i] = c
    THEN (CHOOSE i \in 1..Len(s) : s[i] = c /\ \A j \in 1..(i - 1) : s[j] # c) - 1
    ELSE Npos

\* s.find_last_not_of(c): the 0-based place of the last character that is
\* not c, or npos
FindLastNotOf(s, c) ==
    IF \E i \in 1..Len(s) : s[i] # c
    THEN (CHOOSE i \in 1..Len(s) : s[i] # c /\ \A j \in (i + 1)..Len(s) : s[j] = c) - 1
    ELSE Npos

\* s.substr(0, n)
Substr0(s, n) == SubSeq(s, 1, Min(n, Len(s)))

\* s.erase(pos): what is left of s
EraseFrom(s, pos) == SubSeq(s, 1, pos)

\* the mutant: the trailing spaces are kept
CleanNameNoTrim(filename) ==
    IF FindChar(filename, ChParen) # Npos
    THEN Substr0(filename, FindChar(filename, ChParen))
    ELSE filename

CleanName(filename) ==
    LET cut == IF FindChar(filename, ChParen) # Npos
               THEN Substr0(filename, FindChar(filename, ChParen))
               ELSE filename
    IN EraseFrom(cut, FindLastNotOf(cut, ChSpace) + 1)

CommandLen == 34
NameFieldLen == 32

\* std::vector<uint8_t> command(34, 0); command[0..1]; memcpy of copyLen bytes
DownloadCommand(filename) ==
    LET cleanName == CleanName(filename)
        copyLen == Min(Len(cleanName), NameFieldLen)
    IN [i \in 1..CommandLen |->
           IF i = 1 THEN 6
           ELSE IF i = 2 THEN 32
           ELSE IF i - 2 <= copyLen THEN cleanName[i - 2]
           ELSE 0]

ResetCommand == <<8>>
SkipMarker == <<218>>

\* ------------------------------------------------------------------------
\* ProcessPacket and PerformSmartPeek: the arithmetic
\* ------------------------------------------------------------------------
\* static_cast<int>(b0 | b1 << 8 | b2 << 16 | b3 << 24): a 32-bit int, so a
\* top byte of 128 or more gives a negative value
LE32Int(b0, b1, b2, b3) ==
    b0 + 256 * b1 + 65536 * b2 + 16777216 * (IF b3 >= 128 THEN b3 - 256 ELSE b3)

\* integer division of C++: towards zero
TruncDiv(a, b) == IF a >= 0 THEN a \div b ELSE -((-a) \div b)

Abs(x) == IF x < 0 THEN -x ELSE x

Targets == <<100, 200, 300, 400, 500, 600, 700, 800, 900, 1000>>

\* the loop of SnapToStandardInterval from target i on; minDiff < 0 stands
\* for INT64_MAX
RECURSIVE SnapLoop(_, _, _, _)
SnapLoop(raw, i, closest, minDiff) ==
    IF i > Len(Targets) THEN closest
    ELSE LET d == Abs(raw - Targets[i])
         IN IF minDiff < 0 \/ d < minDiff
            THEN SnapLoop(raw, i + 1, Targets[i], d)
            ELSE SnapLoop(raw, i + 1, closest, minDiff)

SnapToStandardInterval(raw) == SnapLoop(raw, 1, 1000, -1)

\* static_cast<int64_t>(t2 - t1) of two uint32_t, snapped.  When t2 < t1 the
\* difference wraps to at least 2^31, and SnapLoop gives 1000 for every
\* value from 1000 on.
SnapOfDiff(t1, t2) ==
    IF t2 >= t1 THEN SnapToStandardInterval(t2 - t1) ELSE SnapToStandardInterval(1000)

\* days from 1970-01-01 to the first day of month mon (0-based, any integer)
\* of year yr
IsLeap(y) == (y % 4 = 0 /\ y % 100 # 0) \/ y % 400 = 0

DaysInMonth(y, m) ==
    IF m = 1 THEN (IF IsLeap(y) THEN 29 ELSE 28)
    ELSE IF m \in {3, 5, 8, 10} THEN 30
    ELSE 31

RECURSIVE DaysBeforeYear(_)
DaysBeforeYear(y) ==
    IF y = 1970 THEN 0
    ELSE IF y > 1970 THEN DaysBeforeYear(y - 1) + (IF IsLeap(y - 1) THEN 366 ELSE 365)
    ELSE DaysBeforeYear(y + 1) - (IF IsLeap(y) THEN 366 ELSE 365)

RECURSIVE DaysBeforeMonth(_, _)
DaysBeforeMonth(y, m) ==
    IF m = 0 THEN 0 ELSE DaysBeforeMonth(y, m - 1) + DaysInMonth(y, m - 1)

\* mktime of a struct tm with tm_isdst = 0 on a host whose local time is
\* UTC: the fields are normalised and dates before 1970 give -1
Mktime(tm_year, tm_mon, tm_mday, tm_hour, tm_min, tm_sec) ==
    LET y == tm_year + 1900 + (IF tm_mon >= 0 THEN tm_mon \div 12 ELSE -1)
        m == IF tm_mon >= 0 THEN tm_mon % 12 ELSE 11
        days == DaysBeforeYear(y) + DaysBeforeMonth(y, m) + (tm_mday - 1)
        secs == ((days * 24 + tm_hour) * 60 + tm_min) * 60 + tm_sec
    IN IF secs < 0 THEN -1 ELSE secs

\* buffer bytes are numbered from 0 in the source
At(buf, i) == buf[i + 1]

PeekStartTimeMs(buf) ==
    LET yr == At(buf, 5) + 256 * At(buf, 6)
    IN Mktime(yr - 1900, At(buf, 7) - 1, At(buf, 8), At(buf, 9), At(buf, 10),
              At(buf, 11)) * 1000

PeekDuration(buf, expected, packetSize) ==
    LET t1 == LE32Int(At(buf, 1), At(buf, 2), At(buf, 3), At(buf, 4))
        t2 == LE32Int(At(buf, 65), At(buf, 66), At(buf, 67), At(buf, 68))
        interval == SnapOfDiff(t1, t2)
        ppp == Max(packetSize - 5, 59)
    IN TruncDiv(expected * ppp, 64) * interval

PeekMinSize == 129

\* the mutant: the window's end is not taken into account
PeekCancelsNoDur(startTimeMs, dur, fstart, fend) ==
    \/ (fend > 0 /\ startTimeMs > fend)
    \/ (fstart > 0 /\ startTimeMs < fstart)

\* the condition under which PerformSmartPeek calls CancelDownload
PeekCancels(startTimeMs, dur, fstart, fend) ==
    \/ (fend > 0 /\ startTimeMs > fend)
    \/ (fstart > 0 /\ (startTimeMs + dur) < fstart)

\* PerformSmartPeek up to its decision
SmartPeekCancels(buf, expected, packetSize, fstart, fend) ==
    /\ Len(buf) >= PeekMinSize
    /\ PeekCancels(PeekStartTimeMs(buf), PeekDuration(buf, expected, packetSize),
                   fstart, fend)

\* the mutant: the type byte is not stored
FirstFragmentPayloadNoType(packet) == SubSeq(packet, 10, Len(packet))

\* the bytes ProcessPacket puts into the cleared buffer for a first fragment:
\* the message type, then the bytes from offset 9 on
FirstFragmentPayload(packet) ==
    <<packet[1]>> \o SubSeq(packet, 10, Len(packet))

\* the bytes ProcessPacket appends for a later fragment: from offset 5 on
ContinuationPayload(packet) == SubSeq(packet, 6, Len(packet))

\* bytes 5-8 of a first fragment, as ProcessPacket stores them
ExpectedOf(packet) == LE32Int(packet[6], packet[7], packet[8], packet[9])

\* the largest value of an int
IntMax == LE32Int(255, 255, 255, 127)

\* int estimatedSize = total_expected_packets_ * (safeSize - 5) + 2048 with
\* safeSize = max(actual_packet_size_, 64): TRUE when the product and the sum
\* are values of an int, so that the arithmetic is defined
PreSizeFits(expected, packetSize) ==
    LET k == Max(packetSize, 64) - 5
    IN IF expected >= 0
       THEN expected <= (IntMax - 2048) \div k
       ELSE expected >= -(IntMax \div k) - (IF IntMax % k = k - 1 THEN 1 ELSE 0)

\* the completion check at the end of ProcessPacket
CompletionDue(expected, received) == expected > 0 /\ received >= expected

\* the two forcing conditions of the watchdog loop; progress > 0.98 is
\* received / expected > 98 / 100 with expected > 0
HardTimeout(expected, elapsed) == expected > 0 /\ elapsed > 60000

StuckNearCompletion(expected, received, elapsed) ==
    /\ expected > 0
    /\ elapsed > 2500
    /\ received * 100 > expected * 98

SettleDelayMs == 50
CancelDelayMs == 600
WatchdogPollMs == 1000
ConnectSettleMs == 1000
ScanWindowMs == 15000

\* the mutant: the skip-signal thread does not sleep
SkipWakeAtOnce(t) == t

\* when the sleep of the skip-signal thread started at t is over
SkipWake(t) == t + CancelDelayMs

\* ------------------------------------------------------------------------
\* The state
\* ------------------------------------------------------------------------
VARIABLES
    payload_buffer_,          \* std::vector<uint8_t>
    received_packet_count_,
    total_expected_packets_,
    actual_packet_size_,
    current_message_type_,
    filter_start_,
    filter_end_,
    is_filtering_,
    is_smart_peek_done_,
    watchdog_running_,        \* std::atomic<bool>
    last_packet_time_,
    alive_,                   \* the flag the detached tasks share with the session
    ble,                      \* watcher_, device_, notify_char_, write_char_ and the
                              \* ValueChanged subscription
    wd,                       \* watchdog_thread_ and the thread it runs
    caller,                   \* the thread that calls the public operations
    transport,                \* the thread that delivers notifications
    conn,                     \* the ConnectAsync coroutine
    finishers,                \* the detached settle-delay threads of ProcessPacket
    skippers,                 \* the detached skip-signal threads of CancelDownload
    scanStoppers,             \* the detached auto-stop threads of StartScan
    now,                      \* std::chrono::steady_clock::now(), in ms
    crashed,                  \* std::terminate was called
    destroyed,                \* the destructor has returned
    payloads,                 \* the calls of on_payload_
    statuses,                 \* the calls of on_status_
    scans,                    \* the calls of on_scan_
    written,                  \* the commands handed to write_char_
    connects,                 \* the calls of Connect and what became of the text
    open,                     \* history: the fragments of the message being assembled
    peeks,                    \* history: the runs of PerformSmartPeek
    nfrag,                    \* history: the number of notifications so far
    ncall                     \* history: the number of public calls so far

fieldVars ==
    <<payload_buffer_, received_packet_count_, total_expected_packets_,
      actual_packet_size_, current_message_type_, filter_start_, filter_end_,
      is_filtering_, is_smart_peek_done_, watchdog_running_, last_packet_time_,
      alive_, ble>>

threadVars == <<wd, caller, transport, conn, finishers, skippers, scanStoppers>>

envVars == <<now, crashed, destroyed>>

outVars == <<payloads, statuses, scans, written, connects>>

histVars == <<open, peeks, nfrag, ncall>>

vars == <<fieldVars, threadVars, envVars, outVars, histVars>>

NoThread == [pc |-> "none", wake |-> 0]

IdleCaller == [pc |-> "idle", op |-> "none", name |-> <<>>, fs |-> 0, fe |-> 0, at |-> 0]

NoMessage == [id |-> 0, frags |-> <<>>, clean |-> FALSE]

Init ==
    /\ payload_buffer_ = <<>>
    /\ received_packet_count_ = 0
    /\ total_expected_packets_ = 0
    /\ actual_packet_size_ = 0
    /\ current_message_type_ = 0
    /\ filter_start_ = 0
    /\ filter_end_ = 0
    /\ is_filtering_ = FALSE
    /\ is_smart_peek_done_ = FALSE
    /\ watchdog_running_ = FALSE
    /\ last_packet_time_ = 0
    /\ alive_ = TRUE
    /\ ble = [watcher |-> FALSE, device |-> FALSE, notify |-> FALSE, write |-> FALSE,
              subscribed |-> FALSE]
    /\ wd = NoThread
    /\ caller = IdleCaller
    /\ transport = [pc |-> "idle", at |-> 0]
    /\ conn = [pc |-> "none", wake |-> 0]
    /\ finishers = <<>>
    /\ skippers = <<>>
    /\ scanStoppers = <<>>
    /\ now = 0
    /\ crashed = FALSE
    /\ destroyed = FALSE
    /\ payloads = <<>>
    /\ statuses = <<>>
    /\ scans = <<>>
    /\ written = <<>>
    /\ connects = <<>>
    /\ open = NoMessage
    /\ peeks = <<>>
    /\ nfrag = 0
    /\ ncall = 0

\* the process runs, and the session object exists
Running == ~crashed

\* ------------------------------------------------------------------------
\* Helpers shared by the operations
\* ------------------------------------------------------------------------
\* watchdog_thread_.joinable()
Joinable == wd.pc # "none"

\* WriteCommand: nothing is written without a write characteristic
Written(data, op, name) ==
    IF ble.write THEN Append(written, [data |-> data, op |-> op, name |-> name])
    ELSE written

PayloadEvent(by, data, ref, frags, clean) ==
    [by |-> by, data |-> data, ref |-> ref, at |-> IF by = "skip" THEN now ELSE 0,
     frags |-> frags, clean |-> clean]

\* an element of a sequence replaced, and removed
SetAt(seq, i, x) == [seq EXCEPT ![i] = x]

RemoveAt(seq, i) == SubSeq(seq, 1, i - 1) \o SubSeq(seq, i + 1, Len(seq))

\* time passes: the clock reaches one of the given instants
Tick(instants) ==
    /\ Running
    /\ \E t \in instants : t > now /\ now' = t
    /\ UNCHANGED <<fieldVars, threadVars, crashed, destroyed, outVars, histVars>>

\* ------------------------------------------------------------------------
\* Scanning
\* ------------------------------------------------------------------------
CallerFree == Running /\ ~destroyed /\ caller.pc = "idle"

StartScan ==
    /\ CallerFree
    /\ ble' = [ble EXCEPT !.watcher = TRUE]
    /\ statuses' = Append(statuses, "Scanning...")
    /\ scanStoppers' = Append(scanStoppers, [pc |-> "sleep", wake |-> now + ScanWindowMs])
    /\ ncall' = ncall + 1
    /\ UNCHANGED <<payload_buffer_, received_packet_count_, total_expected_packets_,
                   actual_packet_size_, current_message_type_, filter_start_,
                   filter_end_, is_filtering_, is_smart_peek_done_, watchdog_running_,
                   last_packet_time_, alive_, wd, caller, transport, conn, finishers,
                   skippers, envVars, payloads, scans, written, connects, open, peeks,
                   nfrag>>

StopScan ==
    /\ CallerFree
    /\ ble' = [ble EXCEPT !.watcher = FALSE]
    /\ ncall' = ncall + 1
    /\ UNCHANGED <<payload_buffer_, received_packet_count_, total_expected_packets_,
                   actual_packet_size_, current_message_type_, filter_start_,
                   filter_end_, is_filtering_, is_smart_peek_done_, watchdog_running_,
                   last_packet_time_, alive_, threadVars, envVars, outVars, open, peeks,
                   nfrag>>

\* the detached thread of StartScan: sleep 15 s, then StopScan if alive
ScanAutoStop(i) ==
    /\ Running
    /\ i \in DOMAIN scanStoppers
    /\ now >= scanStoppers[i].wake
    /\ ble' = IF alive_ THEN [ble EXCEPT !.watcher = FALSE] ELSE ble
    /\ scanStoppers' = RemoveAt(scanStoppers, i)
    /\ UNCHANGED <<payload_buffer_, received_packet_count_, total_expected_packets_,
                   actual_packet_size_, current_message_type_, filter_start_,
                   filter_end_, is_filtering_, is_smart_peek_done_, watchdog_running_,
                   last_packet_time_, alive_, wd, caller, transport, conn, finishers,
                   skippers, envVars, outVars, histVars>>

OnAdvertisementReceived(name, addr, rssi) ==
    /\ Running
    /\ ble.watcher
    /\ scans' = IF IsPodName(name)
                THEN Append(scans, [name |-> name, id |-> FormatAddress(addr),
                                    rssi |-> rssi, addr |-> addr])
                ELSE scans
    /\ UNCHANGED <<fieldVars, threadVars, envVars, payloads, statuses, written,
                   connects, histVars>>

\* ------------------------------------------------------------------------
\* Connecting
\* ------------------------------------------------------------------------
\* Connect: StopScan, "Connecting...", the parse, then ConnectAsync.  An
\* exception of std::stoul leaves Connect before ConnectAsync is called.
Connect(deviceAddress) ==
    /\ CallerFree
    /\ conn.pc \in {"none", "done"}
    /\ LET r == ParseAddress(deviceAddress)
       IN /\ connects' = Append(connects, [text |-> deviceAddress, threw |-> r.threw,
                                           addr |-> r.val, started |-> r.threw = "none"])
          /\ conn' = IF r.threw = "none" THEN [pc |-> "lookup", wake |-> 0] ELSE conn
    /\ ble' = [ble EXCEPT !.watcher = FALSE]
    /\ statuses' = Append(statuses, "Connecting...")
    /\ ncall' = ncall + 1
    /\ UNCHANGED <<payload_buffer_, received_packet_count_, total_expected_packets_,
                   actual_packet_size_, current_message_type_, filter_start_,
                   filter_end_, is_filtering_, is_smart_peek_done_, watchdog_running_,
                   last_packet_time_, alive_, wd, caller, transport, finishers, skippers,
                   scanStoppers, envVars, payloads, scans, written, open, nfrag, peeks>>

\* one co_await of ConnectAsync and the code up to the next one; outcome is
\* what the transport answers: "ok", "fail" (null, no service, no
\* characteristic, no success status) or "error" (winrt::hresult_error)
ConnectAsyncStep(outcome) ==
    /\ Running
    /\ conn.pc \in {"lookup", "services", "notify", "cccd", "write"}
    /\ IF outcome = "error"
       THEN /\ statuses' = Append(statuses, "Connection Error")
            /\ conn' = [pc |-> "done", wake |-> 0]
            /\ ble' = ble
       ELSE CASE conn.pc = "lookup" ->
                    /\ ble' = [ble EXCEPT !.device = (outcome = "ok")]
                    /\ statuses' = IF outcome = "ok" THEN statuses
                                   ELSE Append(statuses, "Device Not Found")
                    /\ conn' = [pc |-> IF outcome = "ok" THEN "services" ELSE "done",
                                wake |-> 0]
              [] conn.pc = "services" ->
                    /\ ble' = ble
                    /\ statuses' = IF outcome = "ok" THEN statuses
                                   ELSE Append(statuses, "Service Not Found")
                    /\ conn' = [pc |-> IF outcome = "ok" THEN "notify" ELSE "done",
                                wake |-> 0]
              [] conn.pc = "notify" ->
                    /\ ble' = [ble EXCEPT !.notify = (outcome = "ok") \/ @]
                    /\ statuses' = statuses
                    /\ conn' = [pc |-> IF outcome = "ok" THEN "cccd" ELSE "write",
                                wake |-> 0]
              [] conn.pc = "cccd" ->
                    /\ ble' = [ble EXCEPT !.subscribed = (outcome = "ok") \/ @]
                    /\ statuses' = statuses
                    /\ conn' = [pc |-> "write", wake |-> 0]
              [] conn.pc = "write" ->
                    /\ ble' = [ble EXCEPT !.write = (outcome = "ok") \/ @]
                    /\ statuses' = Append(statuses, "Connected")
                    /\ conn' = [pc |-> "settle", wake |-> now + ConnectSettleMs]
    /\ UNCHANGED <<payload_buffer_, received_packet_count_, total_expected_packets_,
                   actual_packet_size_, current_message_type_, filter_start_,
                   filter_end_, is_filtering_, is_smart_peek_done_, watchdog_running_,
                   last_packet_time_, alive_, wd, caller, transport, finishers, skippers,
                   scanStoppers, envVars, payloads, scans, written, connects, histVars>>

\* after the one second sleep: WriteCommand({0x08})
ConnectAsyncSettle ==
    /\ Running
    /\ conn.pc = "settle"
    /\ now >= conn.wake
    /\ written' = Written(ResetCommand, "reset", <<>>)
    /\ conn' = [pc |-> "done", wake |-> 0]
    /\ UNCHANGED <<fieldVars, wd, caller, transport, finishers, skippers, scanStoppers,
                   envVars, payloads, statuses, scans, connects, histVars>>

\* ------------------------------------------------------------------------
\* The public operations that stop the watchdog.  StopWatchdog clears
\* watchdog_running_ and, when watchdog_thread_ is joinable, waits in join()
\* until the watchdog thread has left its loop: the caller goes on in
\* CallerJoined.
\* ------------------------------------------------------------------------
Tainted(m) == [m EXCEPT !.clean = FALSE]

\* the mutant: ResetDownloadState leaves is_smart_peek_done_ as it is
DownloadFileBodyKeepsPeekFlag(filename, start, end) ==
    /\ payload_buffer_' = <<>>
    /\ received_packet_count_' = 0
    /\ total_expected_packets_' = 0
    /\ actual_packet_size_' = 0
    /\ is_smart_peek_done_' = is_smart_peek_done_
    /\ filter_start_' = start
    /\ filter_end_' = end
    /\ is_filtering_' = (start > 0 \/ end > 0)
    /\ written' = Written(DownloadCommand(filename), "download", filename)
    /\ last_packet_time_' = now
    /\ watchdog_running_' = TRUE
    /\ wd' = [pc |-> "loop", wake |-> 0]
    /\ open' = Tainted(open)
    /\ UNCHANGED <<current_message_type_, alive_, ble, skippers, destroyed, statuses>>

\* DownloadFile after its first StopWatchdog: ResetDownloadState, the filter,
\* the command, last_packet_time_, StartWatchdog
DownloadFileBody(filename, start, end) ==
    /\ payload_buffer_' = <<>>
    /\ received_packet_count_' = 0
    /\ total_expected_packets_' = 0
    /\ actual_packet_size_' = 0
    /\ is_smart_peek_done_' = FALSE
    /\ filter_start_' = start
    /\ filter_end_' = end
    /\ is_filtering_' = (start > 0 \/ end > 0)
    /\ written' = Written(DownloadCommand(filename), "download", filename)
    /\ last_packet_time_' = now
    /\ watchdog_running_' = TRUE
    /\ wd' = [pc |-> "loop", wake |-> 0]
    /\ open' = Tainted(open)
    /\ UNCHANGED <<current_message_type_, alive_, ble, skippers, destroyed, statuses>>

\* CancelDownload after StopWatchdog: the reset command, ResetDownloadState,
\* the detached skip-signal thread
CancelDownloadBody(calledAt) ==
    /\ written' = Written(ResetCommand, "reset", <<>>)
    /\ payload_buffer_' = <<>>
    /\ received_packet_count_' = 0
    /\ total_expected_packets_' = 0
    /\ actual_packet_size_' = 0
    /\ skippers' = Append(skippers, [pc |-> "sleep", wake |-> SkipWake(now),
                                     called |-> calledAt, sawAlive |-> FALSE])
    /\ open' = Tainted(open)
    /\ wd' = NoThread
    /\ watchdog_running_' = FALSE

\* Disconnect after StopWatchdog
DisconnectBody ==
    /\ ble' = [ble EXCEPT !.device = FALSE, !.notify = FALSE, !.write = FALSE,
                          !.subscribed = FALSE]
    /\ payload_buffer_' = <<>>
    /\ received_packet_count_' = 0
    /\ total_expected_packets_' = 0
    /\ actual_packet_size_' = 0
    /\ is_smart_peek_done_' = FALSE
    /\ statuses' = Append(statuses, "Disconnected")
    /\ open' = Tainted(open)
    /\ wd' = NoThread
    /\ watchdog_running_' = FALSE

\* the rest of the operation op once the watchdog is stopped
OperationBody(op, filename, start, end, calledAt) ==
    CASE op = "download" ->
            DownloadFileBody(filename, start, end)
      [] op = "cancel" ->
            /\ CancelDownloadBody(calledAt)
            /\ is_smart_peek_done_' = FALSE
            /\ UNCHANGED <<current_message_type_, filter_start_, filter_end_,
                           is_filtering_, last_packet_time_, alive_, ble, destroyed,
                           statuses>>
      [] op = "disconnect" ->
            /\ DisconnectBody
            /\ UNCHANGED <<current_message_type_, filter_start_, filter_end_,
                           is_filtering_, last_packet_time_, alive_, skippers,
                           destroyed, written>>
      [] op = "destroy" ->
            /\ DisconnectBody
            /\ destroyed' = TRUE
            /\ alive_' = FALSE
            /\ UNCHANGED <<current_message_type_, filter_start_, filter_end_,
                           is_filtering_, last_packet_time_, skippers, written>>

\* a public operation is called: DownloadFile, CancelDownload, Disconnect or
\* the destructor (which clears alive_ before anything else)
Call(op, filename, start, end) ==
    /\ CallerFree
    /\ ncall' = ncall + 1
    /\ IF Joinable
       THEN /\ watchdog_running_' = FALSE
            /\ alive_' = IF op = "destroy" THEN FALSE ELSE alive_
            /\ caller' = [pc |-> "join", op |-> op, name |-> filename, fs |-> start,
                          fe |-> end, at |-> now]
            /\ UNCHANGED <<payload_buffer_, received_packet_count_,
                           total_expected_packets_, actual_packet_size_,
                           current_message_type_, filter_start_, filter_end_,
                           is_filtering_, is_smart_peek_done_, last_packet_time_, ble,
                           wd, skippers, destroyed, statuses, written, open>>
       ELSE /\ OperationBody(op, filename, start, end, now)
            /\ caller' = caller
    /\ UNCHANGED <<transport, conn, finishers, scanStoppers, now, crashed, payloads,
                   scans, connects, peeks, nfrag>>

\* join() returns: the watchdog thread has ended
CallerJoined ==
    /\ Running
    /\ caller.pc = "join"
    /\ wd.pc \in {"exited", "none"}
    /\ OperationBody(caller.op, caller.name, caller.fs, caller.fe, caller.at)
    /\ caller' = IdleCaller
    /\ UNCHANGED <<transport, conn, finishers, scanStoppers, now, crashed, payloads,
                   scans, connects, peeks, nfrag, ncall>>

\* ------------------------------------------------------------------------
\* The ValueChanged handler and ProcessPacket
\* ------------------------------------------------------------------------
\* ProcessPacket up to the Smart Peek test: the fields after the fragment
\* has been taken in; done is FALSE when ProcessPacket returned early
Reassembled(packet) ==
    LET size == IF actual_packet_size_ = 0 THEN Len(packet) ELSE actual_packet_size_
        same == [done |-> FALSE, buf |-> payload_buffer_,
                 recv |-> received_packet_count_, exp |-> total_expected_packets_,
                 type |-> current_message_type_, size |-> actual_packet_size_,
                 open |-> open]
    IN IF Len(packet) < 5 THEN same
       ELSE IF received_packet_count_ = 0
       THEN IF Len(packet) < 9 THEN [same EXCEPT !.size = size]
            ELSE [done |-> TRUE, buf |-> FirstFragmentPayload(packet), recv |-> 1,
                  exp |-> ExpectedOf(packet), type |-> packet[1], size |-> size,
                  open |-> [id |-> open.id + 1, frags |-> <<packet>>, clean |-> TRUE]]
       ELSE [done |-> TRUE, buf |-> payload_buffer_ \o ContinuationPayload(packet),
             recv |-> received_packet_count_ + 1, exp |-> total_expected_packets_,
             type |-> current_message_type_, size |-> size,
             open |-> [open EXCEPT !.frags = Append(@, packet)]]

\* the test in front of PerformSmartPeek
SmartPeekDue(type, buf) ==
    /\ is_filtering_
    /\ type = 3
    /\ ~is_smart_peek_done_
    /\ Len(buf) >= PeekMinSize

\* the detached thread of the completion check; msg and cmds are history:
\* the message it was started for and the commands written until then
NewFinisher(msg) ==
    [pc |-> "sleep", wake |-> now + SettleDelayMs, data |-> <<>>, msg |-> msg,
     frags |-> <<>>, clean |-> FALSE, cmds |-> Len(written)]

\* the handler of a notification: last_packet_time_ under the mutex, then
\* ProcessPacket or, with a count received and none expected, the fragment
\* itself as a payload event
NotifyBody(packet) ==
    /\ Running
    /\ ble.subscribed
    /\ transport.pc = "idle"
    /\ nfrag' = nfrag + 1
    /\ last_packet_time_' = now
    /\ IF ~(total_expected_packets_ > 0 \/ received_packet_count_ = 0)
       THEN /\ payloads' = Append(payloads, PayloadEvent("direct", packet, 0, <<>>, FALSE))
            /\ peeks' = peeks
            /\ UNCHANGED <<payload_buffer_, received_packet_count_,
                           total_expected_packets_, actual_packet_size_,
                           current_message_type_, is_smart_peek_done_,
                           watchdog_running_, wd, transport, finishers, skippers,
                           written, open>>
       ELSE LET r == Reassembled(packet)
                peek == r.done /\ SmartPeekDue(r.type, r.buf)
                cancel == /\ peek
                          /\ SmartPeekCancels(r.buf, r.exp, r.size, filter_start_,
                                              filter_end_)
            IN /\ payloads' = payloads
               /\ current_message_type_' = r.type
               /\ peeks' = IF peek
                           THEN Append(peeks,
                                    [start |-> PeekStartTimeMs(r.buf),
                                     dur |-> PeekDuration(r.buf, r.exp, r.size),
                                     fstart |-> filter_start_, fend |-> filter_end_,
                                     cancelled |-> cancel])
                           ELSE peeks
               /\ IF cancel /\ ~Joinable
                  THEN \* CancelDownload runs through; then is_smart_peek_done_
                       /\ CancelDownloadBody(now)
                       /\ is_smart_peek_done_' = TRUE
                       /\ UNCHANGED <<transport, finishers>>
                  ELSE /\ payload_buffer_' = r.buf
                       /\ received_packet_count_' = r.recv
                       /\ total_expected_packets_' = r.exp
                       /\ actual_packet_size_' = r.size
                       /\ open' = r.open
                       /\ UNCHANGED <<skippers, written, wd>>
                       /\ IF cancel
                          THEN \* CancelDownload waits in StopWatchdog
                               /\ watchdog_running_' = FALSE
                               /\ transport' = [pc |-> "join", at |-> now]
                               /\ UNCHANGED <<is_smart_peek_done_, finishers>>
                          ELSE /\ is_smart_peek_done_' = (is_smart_peek_done_ \/ peek)
                               /\ finishers' =
                                      IF r.done /\ CompletionDue(r.exp, r.recv)
                                      THEN Append(finishers, NewFinisher(r.open.id))
                                      ELSE finishers
                               /\ UNCHANGED <<watchdog_running_, transport>>
    /\ UNCHANGED <<filter_start_, filter_end_, is_filtering_, alive_, ble, caller, conn,
                   scanStoppers, envVars, statuses, scans, connects, ncall>>

\* the fragment does not make ProcessPacket compute an estimatedSize that
\* overflows
ReserveDefined(packet) ==
    (/\ received_packet_count_ = 0
     /\ Len(packet) >= 9)
        => PreSizeFits(ExpectedOf(packet),
                       IF actual_packet_size_ = 0 THEN Len(packet)
                       ELSE actual_packet_size_)

Notify(packet) == ReserveDefined(packet) /\ NotifyBody(packet)

\* a first fragment whose estimatedSize overflows: signed overflow is
\* undefined.  The handler goes on as if nothing had happened; or reserve()
\* is asked for more than max_size() and throws, which ends the handler
\* after payload_buffer_.clear(); or the process ends.
NotifyOverflow(packet) ==
    /\ ~ReserveDefined(packet)
    /\ \/ NotifyBody(packet)
       \/ /\ Running
          /\ ble.subscribed
          /\ transport.pc = "idle"
          /\ nfrag' = nfrag + 1
          /\ last_packet_time_' = now
          /\ current_message_type_' = packet[1]
          /\ total_expected_packets_' = ExpectedOf(packet)
          /\ actual_packet_size_' =
                 (IF actual_packet_size_ = 0 THEN Len(packet) ELSE actual_packet_size_)
          /\ payload_buffer_' = <<>>
          /\ open' = Tainted(open)
          /\ UNCHANGED <<received_packet_count_, filter_start_, filter_end_,
                         is_filtering_, is_smart_peek_done_, watchdog_running_,
                         alive_, ble, threadVars, envVars, outVars, peeks, ncall>>
       \/ /\ Running
          /\ ble.subscribed
          /\ transport.pc = "idle"
          /\ crashed' = TRUE
          /\ UNCHANGED <<fieldVars, threadVars, now, destroyed, outVars, histVars>>

\* the join() of the CancelDownload that Smart Peek called returns; the
\* handler goes on to the end of ProcessPacket
TransportJoined ==
    /\ Running
    /\ transport.pc = "join"
    /\ wd.pc \in {"exited", "none"}
    /\ CancelDownloadBody(transport.at)
    /\ is_smart_peek_done_' = TRUE
    /\ transport' = [pc |-> "idle", at |-> 0]
    /\ UNCHANGED <<current_message_type_, filter_start_, filter_end_, is_filtering_,
                   last_packet_time_, alive_, ble, caller, conn, finishers,
                   scanStoppers, envVars, payloads, statuses, scans, connects, peeks,
                   nfrag, ncall>>

\* ------------------------------------------------------------------------
\* The watchdog thread
\* ------------------------------------------------------------------------
\* while (watchdog_running_): into the one second sleep, or out of the loop
WatchdogLoop ==
    /\ Running
    /\ wd.pc = "loop"
    /\ wd' = IF watchdog_running_
             THEN [pc |-> "sleep", wake |-> now + WatchdogPollMs]
             ELSE [pc |-> "exited", wake |-> 0]
    /\ UNCHANGED <<fieldVars, caller, transport, conn, finishers, skippers,
                   scanStoppers, envVars, outVars, histVars>>

\* what the watchdog sees after its sleep
Elapsed == now - last_packet_time_

WatchdogForces ==
    \/ HardTimeout(total_expected_packets_, Elapsed)
    \/ StuckNearCompletion(total_expected_packets_, received_packet_count_, Elapsed)

\* the poll after the sleep.  A forced finalize calls FinishMessage on the
\* watchdog thread: StopWatchdog clears watchdog_running_, finds
\* watchdog_thread_ joinable and joins the calling thread itself, which
\* throws std::system_error (resource_deadlock_would_occur); nothing in the
\* thread catches it, so std::terminate ends the process.
WatchdogPoll ==
    /\ Running
    /\ wd.pc = "sleep"
    /\ now >= wd.wake
    /\ IF WatchdogForces
       THEN /\ watchdog_running_' = FALSE
            /\ crashed' = TRUE
            /\ wd' = wd
       ELSE /\ wd' = [pc |-> "loop", wake |-> 0]
            /\ UNCHANGED <<watchdog_running_, crashed>>
    /\ UNCHANGED <<payload_buffer_, received_packet_count_, total_expected_packets_,
                   actual_packet_size_, current_message_type_, filter_start_,
                   filter_end_, is_filtering_, is_smart_peek_done_, last_packet_time_,
                   alive_, ble, caller, transport, conn, finishers, skippers,
                   scanStoppers, now, destroyed, outVars, histVars>>

\* ------------------------------------------------------------------------
\* The detached settle-delay threads: sleep 50 ms, then FinishMessage if the
\* session is alive
\* ------------------------------------------------------------------------
FinisherWake(i) ==
    /\ Running
    /\ i \in DOMAIN finishers
    /\ finishers[i].pc = "sleep"
    /\ now >= finishers[i].wake
    /\ IF alive_
       THEN /\ watchdog_running_' = FALSE
            /\ finishers' = SetAt(finishers, i,
                   [finishers[i] EXCEPT !.pc = IF Joinable THEN "join" ELSE "move"])
       ELSE /\ finishers' = RemoveAt(finishers, i)
            /\ UNCHANGED watchdog_running_
    /\ UNCHANGED <<payload_buffer_, received_packet_count_, total_expected_packets_,
                   actual_packet_size_, current_message_type_, filter_start_,
                   filter_end_, is_filtering_, is_smart_peek_done_, last_packet_time_,
                   alive_, ble, wd, caller, transport, conn, skippers, scanStoppers,
                   envVars, outVars, histVars>>

FinisherJoined(i) ==
    /\ Running
    /\ i \in DOMAIN finishers
    /\ finishers[i].pc = "join"
    /\ wd.pc \in {"exited", "none"}
    /\ wd' = NoThread
    /\ finishers' = SetAt(finishers, i, [finishers[i] EXCEPT !.pc = "move"])
    /\ UNCHANGED <<fieldVars, caller, transport, conn, skippers, scanStoppers, envVars,
                   outVars, histVars>>

\* data = std::move(payload_buffer_), under the mutex
FinisherMove(i) ==
    /\ Running
    /\ i \in DOMAIN finishers
    /\ finishers[i].pc = "move"
    /\ finishers' = SetAt(finishers, i,
           [finishers[i] EXCEPT !.pc = "deliver", !.data = payload_buffer_,
                                !.frags = open.frags, !.clean = open.clean])
    /\ payload_buffer_' = <<>>
    /\ open' = Tainted(open)
    /\ UNCHANGED <<received_packet_count_, total_expected_packets_, actual_packet_size_,
                   current_message_type_, filter_start_, filter_end_, is_filtering_,
                   is_smart_peek_done_, watchdog_running_, last_packet_time_, alive_,
                   ble, wd, caller, transport, conn, skippers, scanStoppers, envVars,
                   outVars, peeks, nfrag, ncall>>

\* on_payload_(data)
FinisherDeliver(i) ==
    /\ Running
    /\ i \in DOMAIN finishers
    /\ finishers[i].pc = "deliver"
    /\ payloads' = Append(payloads,
           PayloadEvent("finish", finishers[i].data, finishers[i].msg,
                        finishers[i].frags, finishers[i].clean))
    /\ finishers' = SetAt(finishers, i, [finishers[i] EXCEPT !.pc = "reset"])
    /\ UNCHANGED <<fieldVars, wd, caller, transport, conn, skippers, scanStoppers,
                   envVars, statuses, scans, written, connects, histVars>>

\* the counts and the buffer are cleared; the thread ends
FinisherReset(i) ==
    /\ Running
    /\ i \in DOMAIN finishers
    /\ finishers[i].pc = "reset"
    /\ received_packet_count_' = 0
    /\ total_expected_packets_' = 0
    /\ payload_buffer_' = <<>>
    /\ open' = Tainted(open)
    /\ finishers' = RemoveAt(finishers, i)
    /\ UNCHANGED <<actual_packet_size_, current_message_type_, filter_start_,
                   filter_end_, is_filtering_, is_smart_peek_done_, watchdog_running_,
                   last_packet_time_, alive_, ble, wd, caller, transport, conn, skippers,
                   scanStoppers, envVars, outVars, peeks, nfrag, ncall>>

\* ------------------------------------------------------------------------
\* The detached skip-signal threads: sleep 600 ms, then on_payload_({0xDA})
\* if the session is alive
\* ------------------------------------------------------------------------
SkipperWake(i) ==
    /\ Running
    /\ i \in DOMAIN skippers
    /\ skippers[i].pc = "sleep"
    /\ now >= skippers[i].wake
    /\ skippers' = SetAt(skippers, i,
           [skippers[i] EXCEPT !.pc = IF alive_ THEN "emit" ELSE "done",
                               !.sawAlive = alive_])
    /\ UNCHANGED <<fieldVars, wd, caller, transport, conn, finishers, scanStoppers,
                   envVars, outVars, histVars>>

SkipperEmit(i) ==
    /\ Running
    /\ i \in DOMAIN skippers
    /\ skippers[i].pc = "emit"
    /\ payloads' = Append(payloads, PayloadEvent("skip", SkipMarker, i, <<>>, FALSE))
    /\ skippers' = SetAt(skippers, i, [skippers[i] EXCEPT !.pc = "done"])
    /\ UNCHANGED <<fieldVars, wd, caller, transport, conn, finishers, scanStoppers,
                   envVars, statuses, scans, written, connects, histVars>>

\* ------------------------------------------------------------------------
\* Undefined behaviour that may end the process
\* ------------------------------------------------------------------------
\* a detached thread or the coroutine is past its liveness check and uses
\* the members of a session that has been destroyed
UsesFreedSession ==
    /\ destroyed
    /\ \/ \E i \in DOMAIN finishers : finishers[i].pc \in {"join", "move", "deliver", "reset"}
       \/ \E i \in DOMAIN skippers : skippers[i].pc = "emit"
       \/ conn.pc \in {"lookup", "services", "notify", "cccd", "write", "settle"}

\* a second thread is in join() on watchdog_thread_ after another thread's
\* join() has returned
JoinsJoinedThread ==
    /\ wd.pc = "none"
    /\ \/ caller.pc = "join"
       \/ transport.pc = "join"
       \/ \E i \in DOMAIN finishers : finishers[i].pc = "join"

UndefinedCrash ==
    /\ Running
    /\ UsesFreedSession \/ JoinsJoinedThread
    /\ crashed' = TRUE
    /\ UNCHANGED <<fieldVars, threadVars, now, destroyed, outVars, histVars>>

\* ------------------------------------------------------------------------
\* Inputs
\* ------------------------------------------------------------------------
\* the four bytes of a 32-bit value, least significant first
LE32Bytes(n) == <<n % 256, (n \div 256) % 256, (n \div 65536) % 256, n \div 16777216>>

\* a first fragment: the type tag, four bytes the engine does not read, the
\* expected count, the payload
FirstFragment(type, n, payload) == <<type, 0, 0, 0, 0>> \o LE32Bytes(n) \o payload

\* a later fragment: five bytes the engine does not read, the payload
LaterFragment(payload) == <<1, 0, 0, 0, 0>> \o payload

\* the first 128 payload bytes of a recording: the counter t1, the date and
\* time, and the counter t2 at payload offset 64
RecordingHeader(t1, yr, mon, day, hr, min, sec, t2) ==
    LE32Bytes(t1) \o <<yr % 256, yr \div 256, mon, day, hr, min, sec>>
        \o Rep(0, 53) \o LE32Bytes(t2) \o Rep(0, 60)

FragSingle == FirstFragment(1, 1, <<7>>)

FragFirstOfTwo == FirstFragment(2, 2, <<5>>)

FragLater == LaterFragment(<<8>>)

\* "Log (copy)  "
NameLogCopy == <<76, 111, 103, 32, 40, 99, 111, 112, 121, 41, 32, 32>>

\* "aa:bb:cc:00:0a:ff"
AddressText == <<97, 97, 58, 98, 98, 58, 99, 99, 58, 48, 48, 58, 48, 97, 58, 102, 102>>

Connected == conn.pc = "done"

\* the ConnectAsync coroutine of a device that answers every request
Connecting ==
    \/ conn.pc = "none" /\ Connect(AddressText)
    \/ ConnectAsyncStep("ok")
    \/ ConnectAsyncSettle

\* the watchdog thread
Watchdog ==
    \/ WatchdogLoop
    \/ WatchdogPoll

\* the settle-delay threads
Finishers ==
    \/ \E i \in DOMAIN finishers : FinisherWake(i)
    \/ \E i \in DOMAIN finishers : FinisherJoined(i)
    \/ \E i \in DOMAIN finishers : FinisherMove(i)
    \/ \E i \in DOMAIN finishers : FinisherDeliver(i)
    \/ \E i \in DOMAIN finishers : FinisherReset(i)

\* the skip-signal threads
Skippers ==
    \/ \E i \in DOMAIN skippers : SkipperWake(i)
    \/ \E i \in DOMAIN skippers : SkipperEmit(i)

\* ------------------------------------------------------------------------
\* Spec: a connected session downloads and receives the fragments of short
\* messages, stragglers included
\* ------------------------------------------------------------------------
MaxCalls == 2
MaxFrags == 3

Fragments == {FragSingle, FragFirstOfTwo, FragLater}

Instants == {1000, 1050, 2000}

Next ==
    \/ Tick(Instants)
    \/ Connecting
    \/ Connected /\ ncall <= MaxCalls /\ Call("download", NameLogCopy, 0, 0)
    \/ CallerJoined
    \/ \E p \in Fragments : Connected /\ nfrag < MaxFrags /\ Notify(p)
    \/ Watchdog
    \/ Finishers
    \/ UndefinedCrash

Spec == Init /\ [][Next]_vars

\* the payload the reassembly rule gives for the fragments of one message
RECURSIVE LaterBytes(_)
LaterBytes(frags) ==
    IF frags = <<>> THEN <<>>
    ELSE SubSeq(Head(frags), 6, Len(Head(frags))) \o LaterBytes(Tail(frags))

ExpectedPayload(frags) ==
    <<frags[1][1]>> \o SubSeq(frags[1], 10, Len(frags[1])) \o LaterBytes(Tail(frags))

\* the events of FinishMessage that hand off a message whose first fragment
\* declared N > 0 and that had exactly its N fragments, with no reset since
\* the first one
WholeMessage(e) ==
    /\ e.by = "finish"
    /\ e.clean
    /\ e.frags # <<>>
    /\ Len(e.frags[1]) >= 9
    /\ ExpectedOf(e.frags[1]) > 0
    /\ Len(e.frags) = ExpectedOf(e.frags[1])

\* C1: the payload delivered for a message of N > 0 fragments that arrived
\* with no reset in between is the type byte of the first fragment, then
\* bytes 9.. of the first fragment, then bytes 5.. of each later fragment in
\* arrival order.
C1_ReassembledPayload ==
    \A k \in DOMAIN payloads :
        WholeMessage(payloads[k]) => payloads[k].data = ExpectedPayload(payloads[k].frags)

\* a message of two fragments, each with payload bytes, has been delivered
C1_Witness ==
    \E k \in DOMAIN payloads :
        /\ WholeMessage(payloads[k])
        /\ payloads[k].frags = <<FragFirstOfTwo, FragLater>>
        /\ payloads[k].data = <<2, 5, 8>>

\* C2: a message that completes normally produces exactly one payload event,
\* also when a fragment arrives during the settle delay.  Refuted: no two
\* payload events of FinishMessage belong to the same message.
C2_OnePayloadEventPerMessage ==
    \A j, k \in DOMAIN payloads :
        (/\ payloads[j].by = "finish"
         /\ payloads[k].by = "finish"
         /\ payloads[j].ref = payloads[k].ref) => j = k

\* C7: FinishMessage hands off the payload at most once per message, in
\* every interleaving of the watchdog thread, the settle-delay threads and
\* the fragment callback.  Refuted: no two threads are past the hand-off of
\* the same message.
C7_OneHandOffPerMessage ==
    \A j, k \in DOMAIN finishers :
        (/\ finishers[j].pc \in {"deliver", "reset"}
         /\ finishers[k].pc \in {"deliver", "reset"}
         /\ finishers[j].msg = finishers[k].msg) => j = k

\* ------------------------------------------------------------------------
\* SpecWatchdog: one long message arrives fragment by fragment while the
\* watchdog polls; the clock reaches past 2.5 s and past 60 s of silence
\* ------------------------------------------------------------------------
LongMessage == 51
MaxLongFrags == 51

FragFirstOfLong == FirstFragment(1, LongMessage, <<>>)

FragEmpty == LaterFragment(<<>>)

WatchdogInstants == {1000, 4000, 62000}

NextWatchdog ==
    \/ Tick(WatchdogInstants)
    \/ Connecting
    \/ Connected /\ wd.pc = "none" /\ ncall <= MaxCalls
           /\ Call("download", NameLogCopy, 0, 0)
    \/ Connected /\ nfrag < MaxLongFrags /\ received_packet_count_ = 0
           /\ Notify(FragFirstOfLong)
    \/ Connected /\ nfrag < MaxLongFrags /\ received_packet_count_ > 0
           /\ Notify(FragEmpty)
    \/ Watchdog
    \/ Finishers

SpecWatchdog == Init /\ [][NextWatchdog]_vars

\* what a forced finalize is to leave behind: one more payload event with
\* the bytes accumulated so far, the reassembly state idle, the watchdog
\* stopped, the process running
ForceFinalized ==
    /\ payloads' = Append(payloads, PayloadEvent("finish", payload_buffer_, open.id,
                                                 open.frags, open.clean))
    /\ received_packet_count_' = 0
    /\ total_expected_packets_' = 0
    /\ payload_buffer_' = <<>>
    /\ ~watchdog_running_'
    /\ ~crashed'

\* C3: a poll of the running watchdog that finds a message open and more
\* than 60 s elapsed since the last fragment force-finalizes the message:
\* one payload event with the partial payload, reassembly idle, watchdog
\* stopped.  Refuted: the poll ends the process instead.
C3_HardTimeoutFinalizes ==
    [][(WatchdogPoll /\ HardTimeout(total_expected_packets_, Elapsed))
           => ForceFinalized]_vars

\* C4: a poll that finds more than 2.5 s elapsed and received / expected
\* above 0.98 force-finalizes the message although 60 s have not elapsed,
\* and a poll that finds received / expected at most 0.98 and at most 60 s
\* elapsed does not.  Refuted: the forcing poll ends the process instead.
C4_StuckNearCompletionFinalizes ==
    [][/\ (/\ WatchdogPoll
           /\ StuckNearCompletion(total_expected_packets_, received_packet_count_,
                                  Elapsed)
           /\ Elapsed <= 60000) => ForceFinalized
       /\ (/\ WatchdogPoll
           /\ total_expected_packets_ > 0
           /\ received_packet_count_ * 100 <= total_expected_packets_ * 98
           /\ Elapsed <= 60000) => (payloads' = payloads /\ ~crashed')]_vars

\* ------------------------------------------------------------------------
\* SpecCancel: CancelDownload is called, the skip-signal threads sleep and
\* wake, and the session may be destroyed in between
\* ------------------------------------------------------------------------
MaxCancels == 2

CancelInstants == {100, 600, 700, 1300}

NextCancel ==
    \/ Tick(CancelInstants)
    \/ Len(skippers) < MaxCancels /\ Call("cancel", <<>>, 0, 0)
    \/ Call("destroy", <<>>, 0, 0)
    \/ Skippers
    \/ UndefinedCrash

SpecCancel == Init /\ [][NextCancel]_vars

\* the payload events of the skip-signal thread of the i-th CancelDownload
SkipEvents(i) == {k \in DOMAIN payloads : payloads[k].by = "skip" /\ payloads[k].ref = i}

\* C5 as stated: every CancelDownload whose skip-signal thread has ended
\* has produced exactly one payload event.  Refuted by a session destroyed
\* during the delay.
C5_ExactlyOneSkipEvent ==
    \A i \in DOMAIN skippers :
        skippers[i].pc = "done" => Cardinality(SkipEvents(i)) = 1

\* C5: a call of CancelDownload results in at most one payload event; the
\* event carries the single byte 0xDA and comes no sooner than 600 ms after
\* the call; and there is exactly one once the skip-signal thread has ended
\* if and only if the session was still alive when the delay was over.
C5_SkipEventUnlessDestroyed ==
    \A i \in DOMAIN skippers :
        /\ Cardinality(SkipEvents(i)) <= 1
        /\ \A k \in SkipEvents(i) :
               /\ payloads[k].data = <<218>>
               /\ payloads[k].at >= skippers[i].called + 600
        /\ skippers[i].pc = "done" =>
               (Cardinality(SkipEvents(i)) = 1 <=> skippers[i].sawAlive)

\* one cancellation has delivered its event, another one ended without,
\* the session having been destroyed during its delay
C5_Witness ==
    \E i, j \in DOMAIN skippers :
        /\ skippers[i].pc = "done" /\ Cardinality(SkipEvents(i)) = 1
        /\ skippers[j].pc = "done" /\ SkipEvents(j) = {} /\ destroyed

\* ------------------------------------------------------------------------
\* SpecPeek: filtered downloads of recordings; Smart Peek looks at the
\* first 129 bytes of each
\* ------------------------------------------------------------------------
MaxPeekFrags == 3

\* a recording of two fragments that starts 1970-01-01 00:00:10, sampled
\* every 100 ms: its window is [10000, 10400]
FragRecording == FirstFragment(3, 2, RecordingHeader(0, 1970, 1, 1, 0, 0, 10, 100))

\* a recording of three fragments that starts 1970-01-01 00:00:30, sampled
\* every 260 ms (snapped to 300): its window is [30000, 31800]
FragRecordingLate == FirstFragment(3, 3, RecordingHeader(40, 1970, 1, 1, 0, 0, 30, 300))

\* <<filter_start, filter_end>>: no bound, a bound on either side of the
\* windows, bounds inside a window, and bounds below zero
PeekFilters ==
    {<<0, 0>>, <<20000, 0>>, <<0, 5000>>, <<10200, 0>>, <<10401, 40000>>,
     <<5000, -5000>>, <<-5000, 5000>>}

PeekInstants == {1000, 2000}

NextPeek ==
    \/ Tick(PeekInstants)
    \/ Connecting
    \/ \E f \in PeekFilters :
           Connected /\ ncall <= MaxCalls /\ Call("download", NameLogCopy, f[1], f[2])
    \/ CallerJoined
    \/ \E p \in {FragRecording, FragRecordingLate} :
           Connected /\ nfrag < MaxPeekFrags /\ Notify(p)
    \/ TransportJoined
    \/ Watchdog
    \/ UndefinedCrash

SpecPeek == Init /\ [][NextPeek]_vars

\* the cancellations Smart Peek has asked for, and the calls of
\* CancelDownload it has made: those through, and the one waiting for the
\* watchdog to stop
PeekCancellations == Cardinality({k \in DOMAIN peeks : peeks[k].cancelled})

PeekCancelCalls == Len(skippers) + (IF transport.pc = "join" THEN 1 ELSE 0)

\* C6 as stated: Smart Peek cancels exactly when the window lies after a
\* nonzero filter_end or before a nonzero filter_start.  Refuted by a
\* filter bound below zero.
C6_CancelsIffOutsideNonzero ==
    \A k \in DOMAIN peeks :
        peeks[k].cancelled <=>
            \/ (peeks[k].fend # 0 /\ peeks[k].start > peeks[k].fend)
            \/ (peeks[k].fstart # 0 /\ peeks[k].start + peeks[k].dur < peeks[k].fstart)

\* C6: when Smart Peek runs it calls CancelDownload, once, if and only if
\* the window [start, start + duration] lies entirely after filter_end or
\* entirely before filter_start, a bound being compared only when it is
\* greater than zero; a window that overlaps the filter cancels nothing.
C6_CancelsIffOutsidePositive ==
    /\ \A k \in DOMAIN peeks :
           peeks[k].cancelled <=>
               \/ (peeks[k].fend >= 1 /\ peeks[k].fend < peeks[k].start)
               \/ (peeks[k].fstart >= 1 /\ peeks[k].fstart > peeks[k].start + peeks[k].dur)
    /\ PeekCancellations = PeekCancelCalls

\* Smart Peek has run on a window before the filter and cancelled, and on a
\* window overlapping the filter and let the download go on
C6_Witness ==
    \E j, k \in DOMAIN peeks :
        /\ peeks[j] = [start |-> 10000, dur |-> 400, fstart |-> 20000, fend |-> 0,
                       cancelled |-> TRUE]
        /\ peeks[k].fstart = 10200 /\ ~peeks[k].cancelled
        /\ Len(skippers) >= 1

\* ------------------------------------------------------------------------
\* SpecName: a connected session is asked for files of many names
\* ------------------------------------------------------------------------
MaxTail == 3

\* 'a', ' ' and '('
NameChars == {ChLowerA, ChSpace, ChParen}

\* names of 0, 30, 31 and 32 letters followed by up to MaxTail characters
NamePads == {0, 30, 31, 32}

Names ==
    {NameLogCopy} \cup
    UNION {{Rep(ChLowerA, k) \o t : t \in [1..n -> NameChars]} :
               k \in NamePads, n \in 0..MaxTail}

NextName ==
    \/ Tick({1000})
    \/ Connecting
    \/ \E name \in Names :
           Connected /\ wd.pc = "none" /\ Call("download", name, 0, 0)
    \/ WatchdogLoop

SpecName == Init /\ [][NextName]_vars

\* the longest prefix of a name without '(', and the longest prefix of a
\* text that does not end with a space
LongestPrefix(text, Ok(_)) ==
    LET n == CHOOSE n \in 0..Len(text) :
                 /\ Ok(SubSeq(text, 1, n))
                 /\ \A m \in (n + 1)..Len(text) : ~Ok(SubSeq(text, 1, m))
    IN SubSeq(text, 1, n)

NoParen(text) == \A i \in DOMAIN text : text[i] # 40

NoTrailingSpace(text) == text = <<>> \/ text[Len(text)] # 32

BeforeParen(name) ==
    LET n == CHOOSE n \in 0..Len(name) :
                 /\ NoParen(SubSeq(name, 1, n))
                 /\ (n < Len(name) => name[n + 1] = 40)
    IN SubSeq(name, 1, n)

CleanedName(name) == LongestPrefix(BeforeParen(name), NoTrailingSpace)

\* C10: the command DownloadFile writes is 34 bytes: 0x06, 0x20, then 32
\* bytes holding the text before the first '(' without its trailing spaces,
\* cut to 32 bytes and filled up with zero bytes.
C10_DownloadCommand ==
    \A k \in DOMAIN written :
        written[k].op = "download" =>
            LET data == written[k].data
                clean == CleanedName(written[k].name)
            IN /\ Len(data) = 34
               /\ data[1] = 6
               /\ data[2] = 32
               /\ \A i \in 1..32 :
                      data[2 + i] = IF i <= Len(clean) THEN clean[i] ELSE 0

\* "Log (copy)  " has been written as "Log" and 29 zero bytes
C10_Witness ==
    \E k \in DOMAIN written :
        /\ written[k].op = "download"
        /\ written[k].name = NameLogCopy
        /\ written[k].data = <<6, 32, 76, 111, 103>> \o Rep(0, 29)

\* ------------------------------------------------------------------------
\* SpecAddr: a scan reports a device, and Connect is called with the
\* reported identifier or with a text that is no address
\* ------------------------------------------------------------------------
MaxScans == 1
MaxConnects == 1

\* 0x00, 0x0a and 0xff
AddrOctets == {0, 10, 255}

\* the 48-bit addresses with these octets, and two with 0xa0, as uint64_t
Addresses ==
    {<<0, 0>> \o a : a \in [1..6 -> AddrOctets]}
        \cup {<<0, 0, 160, 10, 255, 0, 10, 160>>, <<0, 0, 160, 160, 160, 160, 160, 160>>}

\* "Pod-7" and "Watch"
AdvertisedNames == {<<80, 111, 100, 45, 55>>, <<87, 97, 116, 99, 104>>}

\* "aa:bb", "1g:00:00:00:00:00" and "zz:00:00:00:00:00"
TextTwoTokens == <<97, 97, 58, 98, 98>>

TextNonHexTail == <<49, 103, 58, 48, 48, 58, 48, 48, 58, 48, 48, 58, 48, 48, 58, 48, 48>>

TextNoDigit == <<122, 122, 58, 48, 48, 58, 48, 48, 58, 48, 48, 58, 48, 48, 58, 48, 48>>

\* the identifier a scan has reported, or else a text that is no address
ConnectTexts ==
    IF scans # <<>> THEN {scans[k].id : k \in DOMAIN scans}
    ELSE {TextTwoTokens, TextNonHexTail, TextNoDigit}

Outcomes == {"ok", "fail", "error"}

AddrInstants == {1000, 15000}

NextAddr ==
    \/ Tick(AddrInstants)
    \/ ncall < MaxCalls /\ scanStoppers = <<>> /\ StartScan
    \/ ncall < MaxCalls /\ StopScan
    \/ \E i \in DOMAIN scanStoppers : ScanAutoStop(i)
    \/ \E name \in AdvertisedNames, addr \in Addresses :
           Len(scans) < MaxScans /\ connects = <<>>
               /\ OnAdvertisementReceived(name, addr, -60)
    \/ \E text \in ConnectTexts : Len(connects) < MaxConnects /\ Connect(text)
    \/ \E outcome \in Outcomes :
           (outcome = "ok" \/ scans = <<>>) /\ ConnectAsyncStep(outcome)
    \/ ConnectAsyncSettle

SpecAddr == Init /\ [][NextAddr]_vars

\* C8: parsing, as Connect does, the identifier that
\* OnAdvertisementReceived reports for a 48-bit address gives the address.
C8_AddressRoundTrip ==
    \A k \in DOMAIN scans :
        /\ Len(scans[k].id) = 17
        /\ \A c \in DOMAIN connects :
               connects[c].text = scans[k].id =>
                   /\ connects[c].threw = "none"
                   /\ connects[c].addr = scans[k].addr

\* Connect has parsed the identifier reported for a0:0a:ff:00:0a:a0
C8_Witness ==
    \E k \in DOMAIN scans, c \in DOMAIN connects :
        /\ scans[k].addr = <<0, 0, 160, 10, 255, 0, 10, 160>>
        /\ connects[c].text = scans[k].id
        /\ connects[c].addr = scans[k].addr

\* six tokens of hex digits, separated by colons
SixHexTokens(text) ==
    /\ text # <<>>
    /\ \A i \in DOMAIN text : text[i] = 58 \/ IsHexDigit(text[i])
    /\ Cardinality({i \in DOMAIN text : text[i] = 58}) = 5
    /\ text[1] # 58
    /\ text[Len(text)] # 58
    /\ \A i \in 1..(Len(text) - 1) : ~(text[i] = 58 /\ text[i + 1] = 58)

\* C9: Connect with a text that has a token that is not hex, or that has
\* not six tokens, fails and starts no connection attempt.  Refuted: the
\* text is parsed as far as it goes and the attempt is started.
C9_MalformedAddressRejected ==
    \A c \in DOMAIN connects :
        ~SixHexTokens(connects[c].text) =>
            (connects[c].threw # "none" /\ ~connects[c].started)

\* ------------------------------------------------------------------------
\* Claims about DownloadFile, checked in SpecPeek
\* ------------------------------------------------------------------------
\* the step on which DownloadFile(name, fs, fe) returns: the call itself
\* when there is no watchdog thread to wait for, else the step after join()
DownloadFileReturns(name, fs, fe) ==
    \/ ~Joinable /\ Call("download", name, fs, fe)
    \/ /\ CallerJoined
       /\ caller.op = "download"
       /\ caller.name = name
       /\ caller.fs = fs
       /\ caller.fe = fe

CancelDownloadRuns ==
    \/ ~Joinable /\ Call("cancel", <<>>, 0, 0)
    \/ CallerJoined /\ caller.op = "cancel"
    \/ TransportJoined

\* C12: a cancellation that abandons an open message hands the payload
\* accumulated so far to the caller as a payload event and resets the
\* reassembler.  Refuted: the accumulated payload is dropped without an
\* event.
C12_CancelHandsOffPartial ==
    [][(CancelDownloadRuns /\ total_expected_packets_ > 0 /\ payload_buffer_ # <<>>)
           => /\ Len(payloads') = Len(payloads) + 1
              /\ payloads'[Len(payloads')].data = payload_buffer_
              /\ received_packet_count_' = 0
              /\ total_expected_packets_' = 0
              /\ payload_buffer_' = <<>>]_vars

\* ------------------------------------------------------------------------
\* Claims about the connect attempt, checked in SpecAddr
\* ------------------------------------------------------------------------
TerminalStatuses == {"Connected", "Device Not Found", "Service Not Found", "Connection Error"}

StatusCount(set) == Cardinality({k \in DOMAIN statuses : statuses[k] \in set})

\* the attempts ConnectAsync was started for, and those that have ended
AttemptsStarted == Cardinality({c \in DOMAIN connects : connects[c].started})

AttemptOver == conn.pc \in {"settle", "done"}

\* C13: every connect attempt ends with exactly one terminal status, and
\* "Connected" is reported only if the device, the service, the notify
\* characteristic with its subscription and the write characteristic were
\* all obtained.  Refuted: "Connected" is reported without them.
C13_OneTerminalStatus ==
    /\ StatusCount(TerminalStatuses) <= AttemptsStarted
    /\ (AttemptOver => StatusCount(TerminalStatuses) = AttemptsStarted)
    /\ (StatusCount({"Connected"}) > 0 =>
            ble.device /\ ble.notify /\ ble.subscribed /\ ble.write)

\* ------------------------------------------------------------------------
\* Claims about the detached tasks and the destructor, checked in SpecCancel
\* ------------------------------------------------------------------------
\* C14: once the session is destroyed no delayed task acts on it or emits an
\* event, however its liveness check and the destructor interleave.
\* Refuted: a task that saw the session alive emits after the destructor.
C14_NoTaskActsAfterDestroy ==
    [][destroyed =>
           /\ payloads' = payloads
           /\ statuses' = statuses
           /\ fieldVars' = fieldVars
           /\ ~crashed']_vars

\* ------------------------------------------------------------------------
\* SpecDirect: a connected session with no download receives fragments
\* whose expected count is 0, and fragments too short to be taken in
\* ------------------------------------------------------------------------
MaxDirectFrags == 4

\* a fragment of 10 bytes with an expected count of 0
FragUncounted == FirstFragment(2, 0, <<9>>)

\* a fragment of 4 bytes, and one of 7 bytes
FragShort == <<1, 0, 0, 0>>

FragHeaderOnly == <<1, 0, 0, 0, 0, 1, 0>>

DirectFragments == {FragUncounted, FragShort, FragHeaderOnly, FragLater}

NextDirect ==
    \/ Tick({1000})
    \/ Connecting
    \/ \E p \in DirectFragments : Connected /\ nfrag < MaxDirectFrags /\ Notify(p)

SpecDirect == Init /\ [][NextDirect]_vars

\* C15: with no message open, a fragment whose expected count is 0, the
\* first one included, is delivered at once as a payload event of its own
\* and is not kept in the payload buffer.  Refuted: the first such fragment
\* is kept in the buffer and never delivered.
C15_UncountedFragmentDelivered ==
    [][(Notify(FragUncounted) /\ total_expected_packets_ = 0)
           => /\ Len(payloads') = Len(payloads) + 1
              /\ payloads'[Len(payloads')].data = FragUncounted
              /\ payload_buffer_' = <<>>]_vars

\* C17: a fragment shorter than 5 bytes, and a fragment shorter than 9
\* bytes that arrives when no message is open, is discarded: counts, type
\* and buffer stay as they are, no message is opened and no payload or
\* status event is emitted.  Refuted: after a first fragment with an
\* expected count of 0 a fragment of 4 bytes is delivered as a payload event.
C17_ShortFragmentDiscarded ==
    [][\A p \in {FragShort, FragHeaderOnly} :
           (/\ Notify(p)
            /\ \/ Len(p) < 5
               \/ (received_packet_count_ = 0 /\ total_expected_packets_ = 0))
               => UNCHANGED <<received_packet_count_, total_expected_packets_,
                              current_message_type_, payload_buffer_, open,
                              payloads, statuses>>]_vars

\* C16: while a message is open the received fragment count never
\* decreases, and at the moment a message is finalized by normal completion
\* the received count does not exceed the expected count.  Refuted: a
\* fragment that arrives during the settle delay is counted, so the
\* finalize finds received above expected.
C16_ReceivedWithinExpected ==
    [][/\ (total_expected_packets_ > 0 /\ total_expected_packets_' > 0)
              => received_packet_count_' >= received_packet_count_
       /\ (\E i \in DOMAIN finishers : FinisherMove(i))
              => received_packet_count_ <= total_expected_packets_]_vars

\* ------------------------------------------------------------------------
\* SpecSeries: one filtered download during which several recordings, of
\* one fragment each, arrive one after the other
\* ------------------------------------------------------------------------
MaxSeriesCalls == 1
MaxSeriesFrags == 3

\* a recording of one fragment that starts 1970-01-01 00:00:10, sampled
\* every 100 ms: its window is [10000, 10200]
FragRecordingWhole ==
    FirstFragment(3, 1, RecordingHeader(0, 1970, 1, 1, 0, 0, 10, 100))

\* no bound, a bound that the window overlaps, and a bound below zero
SeriesFilters == {<<0, 0>>, <<10200, 0>>, <<-5000, 0>>}

SeriesInstants == {1000, 1050, 2000}

NextSeries ==
    \/ Tick(SeriesInstants)
    \/ Connecting
    \/ \E f \in SeriesFilters :
           /\ Connected /\ ncall <= MaxSeriesCalls
           /\ Call("download", NameLogCopy, f[1], f[2])
    \/ Connected /\ nfrag < MaxSeriesFrags /\ Notify(FragRecordingWhole)
    \/ Watchdog
    \/ Finishers
    \/ UndefinedCrash

SpecSeries == Init /\ [][NextSeries]_vars

\* C18: Smart Peek runs once for each message, not merely once for each
\* download command, for which filtering is active (either bound is
\* nonzero), the type is the recording tag 0x03, Smart Peek has not yet run
\* for the message and the payload has reached 129 bytes, and never
\* otherwise.  Stated for the fragment that opens a recording and brings
\* 129 bytes of payload: Smart Peek runs on it if a filter bound is
\* nonzero, and Smart Peek runs on no fragment while both bounds are zero.
\* Refuted: the second recording of one download is not looked at.
C18_SmartPeekOncePerMessage ==
    [][/\ (/\ Notify(FragRecordingWhole)
           /\ received_packet_count_ = 0
           /\ (filter_start_ # 0 \/ filter_end_ # 0))
              => Len(peeks') = Len(peeks) + 1
       /\ peeks' # peeks
              => /\ (filter_start_ # 0 \/ filter_end_ # 0)
                 /\ current_message_type_' = 3]_vars

\* ------------------------------------------------------------------------
\* The session mutex
\* ------------------------------------------------------------------------
\* the steps that touch the payload buffer or the counts inside a
\* lock_guard on mtx_: the move of the buffer in FinishMessage, and no other
UnderMutex == \E i \in DOMAIN finishers : FinisherMove(i)

\* C19: every read or write of the payload buffer and of the received and
\* expected counts, by the fragment callback, the watchdog thread, the
\* settle-delay thread and the public operations, happens under the session
\* mutex.  Stated for the writes: a step that changes the buffer or a count
\* holds the mutex.  Refuted: ProcessPacket, the reset at the end of
\* FinishMessage and ResetDownloadState write them with the mutex free.
C19_SharedStateUnderMutex ==
    [][<<payload_buffer_, received_packet_count_, total_expected_packets_>>'
           # <<payload_buffer_, received_packet_count_, total_expected_packets_>>
           => UnderMutex]_vars

\* ------------------------------------------------------------------------
\* SpecWatchdogFair: SpecWatchdog with the clock, the watchdog thread and
\* the settle-delay threads scheduled fairly; fragments and calls may stop
\* coming at any time
\* ------------------------------------------------------------------------
SpecWatchdogFair ==
    /\ SpecWatchdog
    /\ WF_vars(Tick(WatchdogInstants))
    /\ WF_vars(Watchdog)
    /\ WF_vars(Finishers)

\* the last instant of the clock, and a thread asleep until after it
LastInstant == CHOOSE t \in WatchdogInstants : \A u \in WatchdogInstants : u <= t

SleepsPastClock ==
    \/ wd.pc = "sleep" /\ wd.wake > LastInstant
    \/ \E i \in DOMAIN finishers :
           finishers[i].pc = "sleep" /\ finishers[i].wake > LastInstant

\* C20: every message that becomes open (a first fragment with an expected
\* count above 0 was accepted) is eventually finalized and delivered or
\* reset, even if no further fragment ever arrives, the watchdog and the
\* delayed tasks being scheduled fairly.  Refuted: the poll that is to force
\* the finalize ends the process, and a message opened while no download
\* is under way has no watchdog at all.
\* A thread sleeping until an instant after the last one of the clock is
\* left out: what it would do lies beyond the behaviours modelled.
C20_OpenMessageEventuallyClosed ==
    (total_expected_packets_ > 0) ~> (total_expected_packets_ = 0 \/ SleepsPastClock)

\* C21: a forced finalize executed by the watchdog thread runs to
\* completion: FinishMessage called from the watchdog thread does not make
\* the thread join itself, so the partial payload is delivered and the
\* watchdog loop exits.  Refuted: StopWatchdog, called first thing in
\* FinishMessage, joins watchdog_thread_ from the watchdog thread.
C21_ForcedFinalizeCompletes ==
    [][(WatchdogPoll /\ WatchdogForces)
           => /\ ~crashed'
              /\ Len(payloads') = Len(payloads) + 1
              /\ payloads'[Len(payloads')].data = payload_buffer_
              /\ wd'.pc \in {"exited", "none"}]_vars

\* a settle-delay thread after whose start DownloadFile has run
StaleFinisher(i) ==
    \E k \in DOMAIN written : k > finishers[i].cmds /\ written[k].op = "download"

\* C22: a settle-delay finalize scheduled for one message never acts on a
\* later download: once DownloadFile has reset the state, the stale
\* FinishMessage neither stops the watchdog of the new download, nor emits
\* a payload event, nor clears the reassembly state.  Refuted: the thread
\* checks only that the session is alive and then runs FinishMessage.
C22_StaleFinalizeInert ==
    [][\A i \in DOMAIN finishers :
           StaleFinisher(i) =>
               /\ FinisherWake(i) => watchdog_running_' = watchdog_running_
               /\ FinisherMove(i) => payload_buffer_' = payload_buffer_
               /\ ~FinisherDeliver(i)
               /\ FinisherReset(i) =>
                      UNCHANGED <<payload_buffer_, received_packet_count_,
                                  total_expected_packets_>>]_vars

\* CancelDownload has run and the last command written is a reset: the
\* download is cancelled and DownloadFile has not been called since
Cancelled ==
    /\ skippers # <<>>
    /\ written # <<>>
    /\ written[Len(written)].op = "reset"

\* C23: after a cancellation, by CancelDownload called directly or by Smart
\* Peek, and until the next DownloadFile, a fragment that still arrives
\* opens no new message, and the only payload event emitted is the 0xDA
\* skip marker.  Refuted: the reset leaves the counts at 0, so the next
\* fragment is taken as the first fragment of a new message.
C23_CancelledStaysIdle ==
    [][Cancelled =>
           /\ (\E p \in {FragRecording, FragRecordingLate} : Notify(p))
                  => UNCHANGED <<payload_buffer_, received_packet_count_,
                                 total_expected_packets_, open>>
           /\ payloads' # payloads
                  => /\ Len(payloads') = Len(payloads) + 1
                     /\ payloads'[Len(payloads')].data = <<218>>]_vars

\* ------------------------------------------------------------------------
\* SpecCount: a connected session receives first fragments whose expected
\* count runs over the whole width of the field
\* ------------------------------------------------------------------------
MaxCountFrags == 3

\* expected counts 2^30, 2^31 and 2^32 - 1 as the device sends them
FragCountBig == <<1, 0, 0, 0, 0, 0, 0, 0, 64, 7>>

FragCountTopBit == <<1, 0, 0, 0, 0, 0, 0, 0, 128, 7>>

FragCountAllOnes == <<1, 0, 0, 0, 0, 255, 255, 255, 255, 7>>

CountFragments ==
    {FragSingle, FragFirstOfTwo, FragLater, FragCountBig, FragCountTopBit,
     FragCountAllOnes}

NextCount ==
    \/ Tick({1000})
    \/ Connecting
    \/ \E p \in CountFragments : Connected /\ nfrag < MaxCountFrags /\ Notify(p)
    \/ \E p \in CountFragments : Connected /\ nfrag < MaxCountFrags /\ NotifyOverflow(p)

SpecCount == Init /\ [][NextCount]_vars

\* the handler takes the packet, whatever becomes of estimatedSize
Arrives(p) == Notify(p) \/ NotifyOverflow(p)

\* n is the unsigned little-endian value of the four bytes
IsUnsignedLE32(n, b0, b1, b2, b3) ==
    /\ n >= 0
    /\ n % 256 = b0
    /\ (n \div 256) % 256 = b1
    /\ (n \div 65536) % 256 = b2
    /\ n \div 16777216 = b3

\* C24: for every first fragment the expected count stored by ProcessPacket
\* is the unsigned 32-bit little-endian value of bytes 5-8 and is not
\* negative, and the pre-size expected * (max(fragment_size, 64) - 5) + 2048
\* does not wrap around in an int.  Refuted: a count of 2^31 or more is
\* stored as a negative int, and a count of 2^30 overflows the pre-size.
C24_ExpectedCountUnsigned ==
    [][\A p \in CountFragments :
           (Arrives(p) /\ received_packet_count_ = 0 /\ Len(p) >= 9 /\ ~crashed')
               => /\ IsUnsignedLE32(total_expected_packets_', p[6], p[7], p[8], p[9])
                  /\ PreSizeFits(total_expected_packets_', actual_packet_size_')]_vars

====
